---- MODULE Spec2Model ----
(***************************************************************************)
(* Smart City Citizen Dashboard (src/app.py): a Streamlit script that is   *)
(* re-executed from its first line on every user interaction.  The model   *)
(* keeps the state that survives a rerun (the st.cache_data entry of       *)
(* load_data, the widget values of the session, numpy's global generator,  *)
(* the dataset file) and the script's own variables of the current run.    *)
(*                                                                         *)
(* Numbers: Age, Steps_Walked and Digital_Service_Usage are integers as in *)
(* the source; Carbon_Footprint_kgCO2 and Recycling_Rate are whole units,  *)
(* Sleep_Hours and Social_Media_Hours are tenths of an hour.  A mean is    *)
(* the exact fraction [num, den]; NaN, the mean of nothing, is 0/0.         *)
(***************************************************************************)
EXTENDS Integers, Sequences, FiniteSets, TLC

\* ------------------------------------------------------------------ bounds
\* Rows of a dataset file built from RowPool.
MaxRows == 2
\* Rows the fallback generator is asked for (stands for the 300 of load_data).
MockSamples == 4
\* SpecGen: the largest n_samples of a generate_mock_data call, the calls per
\* n_samples, and the draws other code takes from the global generator.
MaxN == 2
MaxCalls == 2
MaxDraws == 2

\* ------------------------------------------------------------- constants
Seed == 42
AgeLow == 18
AgeHigh == 80
StepsLow == 1000
StepsHigh == 15000
DigitalLow == 1
DigitalHigh == 10
DefaultAgeMin == 20
DefaultAgeMax == 60

\* A float NaN (the mean of nothing, 0/0) and a missing category.
NaN == [num |-> 0, den |-> 0]
NA == "NaN"
\* A script variable not bound yet in this run: a record, or a table.
Undefined == [undefined |-> TRUE]
UndefinedTable == <<Undefined>>
\* A widget the session holds no value for yet.
UnsetRange == <<>>
Unset == {"unset"}
\* Python's None as the value of district_filter.
None == {"None"}
\* The cache of load_data holding nothing.
NoEntry == [present |-> FALSE]
\* No file at dataset/smart_city_citizen_activity.csv.
NoFile == [exists |-> FALSE]

transport_modes == <<"Bus", "Car", "Bicycle", "Walk", "EV", "Train", "Motorcycle">>
genders == <<"Male", "Female", "Non-binary">>
districts == <<"Downtown", "Uptown", "Westside", "Eastside", "Suburbs", "Industrial">>
usage_levels == <<"Daily", "Weekly", "Monthly", "Rarely", "Never">>

age_bins == <<18, 25, 35, 45, 55, 65, 75, 100>>
age_labels == <<"18-24", "25-34", "35-44", "45-54", "55-64", "65-74", "75+">>

\* The order in which groupby lists its keys (sorted, i.e. alphabetical).
SortedKeys == <<"Bicycle", "Bus", "Car", "Downtown", "EV", "Eastside", "Female",
                "Industrial", "Male", "Motorcycle", "Non-binary", "Suburbs",
                "Train", "Uptown", "Walk", "Westside">>

AllColumns == {"Age", "Gender", "District", "Mode_of_Transport",
               "Carbon_Footprint_kgCO2", "Steps_Walked", "Sleep_Hours",
               "Social_Media_Hours", "Public_Transport_Usage",
               "Recycling_Rate", "Digital_Service_Usage"}

\* ------------------------------------------------------------- utilities
Range(s) == {s[i] : i \in DOMAIN s}

Min(S) == CHOOSE x \in S : \A y \in S : x <= y
Max(S) == CHOOSE x \in S : \A y \in S : x >= y

RECURSIVE SumSeq(_)
SumSeq(s) == IF Len(s) = 0 THEN 0 ELSE Head(s) + SumSeq(Tail(s))

\* Boolean-mask indexing df[mask]: the rows whose mask entry is TRUE, in order.
Filter_from_second(rows, mask) ==
  LET kept == {i \in 2..Len(rows) : mask[i]}
  IN [k \in 1..Cardinality(kept) |->
        rows[CHOOSE i \in kept : Cardinality({j \in kept : j < i}) = k - 1]]
RECURSIVE Filter(_, _)
Filter(rows, mask) ==
  IF Len(rows) = 0 THEN <<>>
  ELSE (IF Head(mask) THEN <<Head(rows)>> ELSE <<>>) \o Filter(Tail(rows), Tail(mask))

\* numpy's clip on one value.
Clip(x, lo, hi) == IF x < lo THEN lo ELSE IF x > hi THEN hi ELSE x

\* A data frame: its column set and its rows (each a function on the columns).
Frame(cols, rows) ==
  [columns |-> cols,
   rows |-> [i \in 1..Len(rows) |-> [c \in cols |-> rows[i][c]]]]

Column(frame, c) == [i \in 1..Len(frame.rows) |-> frame.rows[i][c]]

\* ------------------------------------------------- numpy's global generator
\* The generator is a deterministic state machine: seeding fixes the state,
\* every draw advances it and returns a value computed from the new state.
RngStates == 0..4095
RngSeed(seed) == seed % 4096
RngStep(s) == (349 * s + 27) % 4096
RngOut(s) == s \div 16

RECURSIVE RngAdvance(_, _)
\* The state k draws after state s: k steps, taken as two halves, the first
\* half's state computed before the second half starts from it.
RngAdvance(s, k) ==
  IF k = 0 THEN s
  ELSE IF k = 1 THEN RngStep(s)
  ELSE LET half == RngAdvance(s, k \div 2)
       IN IF half \in RngStates THEN RngAdvance(half, k - (k \div 2)) ELSE half

\* The next k raw outputs from state s.
RngDraws(s, k) == [i \in 1..k |-> RngOut(RngAdvance(s, i))]

\* np.random.randint(low, high): an integer of [low, high).
randint(low, high, raw) == low + (raw % (high - low))
\* np.random.choice(values).
choice(values, raw) == values[1 + (raw % Len(values))]
\* np.random.normal(mean, sd): mean + z * sd with z one of -4..4.
normal(mean, sd, raw) == mean + ((raw % 9) - 4) * sd
\* np.random.exponential(scale): a non-negative multiple of the scale.
exponential(scale, raw) == (raw % 7) * scale

\* ------------------------------------------------------- generate_mock_data
\* np.random.seed(seed): the state after seeding depends on the seed alone.
np_random_seed_skipped(state, seed) == state
np_random_seed(state, seed) == RngSeed(seed)

\* The generator draws column by column, n_samples values per column, in the
\* order of the dict literal.  Result: the frame and the generator's new state.
\* One row of the data dict: d[j] is the raw draw behind the row's value in
\* the j-th column expression (j = 0 for Age, ..., 10 for
\* Digital_Service_Usage).
mock_row(d) ==
  [Age |-> randint(AgeLow, AgeHigh, d[0]),
   Gender |-> choice(genders, d[1]),
   District |-> choice(districts, d[2]),
   Mode_of_Transport |-> choice(transport_modes, d[3]),
   Carbon_Footprint_kgCO2 |-> Clip(normal(10, 5, d[4]), 0, 30),
   Steps_Walked |-> randint(StepsLow, StepsHigh, d[5]),
   Sleep_Hours |-> Clip(normal(70, 15, d[6]), 40, 100),
   Social_Media_Hours |-> Clip(exponential(20, d[7]), 0, 100),
   Public_Transport_Usage |-> choice(usage_levels, d[8]),
   Recycling_Rate |-> Clip(normal(65, 20, d[9]), 0, 100),
   Digital_Service_Usage |-> randint(DigitalLow, DigitalHigh, d[10])]

generate_mock_data(n_samples, state) ==
  LET s0 == np_random_seed(state, Seed)
      raw == RngDraws(s0, 11 * n_samples)
      row(i) == mock_row([j \in 0..10 |-> raw[j * n_samples + i]])
  IN [frame |-> Frame(AllColumns, [i \in 1..n_samples |-> row(i)]),
      state |-> RngAdvance(s0, 11 * n_samples)]

\* ---------------------------------------------------------- dataset files
\* dataset/smart_city_citizen_activity.csv as pd.read_csv returns it.  The
\* file is not part of the repository; its contents range over the frames
\* below (values in the domains of the data model, Age up to 100).
CitizenRecord(age, gender, district, mode, carbon, steps, sleep, social, recycling, digital) ==
  [Age |-> age, Gender |-> gender, District |-> district,
   Mode_of_Transport |-> mode, Carbon_Footprint_kgCO2 |-> carbon,
   Steps_Walked |-> steps, Sleep_Hours |-> sleep, Social_Media_Hours |-> social,
   Public_Transport_Usage |-> "Daily", Recycling_Rate |-> recycling,
   Digital_Service_Usage |-> digital]

RowPool ==
  <<CitizenRecord(20, "Male", "Downtown", "EV", 4, 9000, 75, 10, 80, 7),
    CitizenRecord(100, "Female", "Downtown", "EV", 6, 1000, 90, 0, 70, 1),
    CitizenRecord(30, "Female", "Uptown", "Car", 18, 3000, 60, 35, 40, 9),
    CitizenRecord(60, "Male", "Uptown", "Car", 12, 5000, 80, 5, 55, 3)>>

\* Ten rows, five of them Male with ages 20, 30, 40, 50, 60.
ScenarioRows ==
  <<CitizenRecord(20, "Male", "Downtown", "Car", 10, 8000, 70, 20, 60, 5),
    CitizenRecord(22, "Female", "Downtown", "Car", 11, 7000, 70, 20, 61, 5),
    CitizenRecord(30, "Male", "Downtown", "Car", 12, 6000, 65, 30, 62, 6),
    CitizenRecord(33, "Female", "Downtown", "Car", 13, 5000, 65, 30, 63, 6),
    CitizenRecord(40, "Male", "Downtown", "Car", 14, 4000, 60, 10, 64, 7),
    CitizenRecord(44, "Female", "Downtown", "Car", 15, 3000, 60, 10, 65, 7),
    CitizenRecord(50, "Male", "Downtown", "Car", 16, 2000, 80, 40, 66, 8),
    CitizenRecord(52, "Female", "Downtown", "Car", 17, 1000, 80, 40, 67, 8),
    CitizenRecord(60, "Male", "Downtown", "Car", 18, 9000, 75, 50, 68, 9),
    CitizenRecord(58, "Female", "Downtown", "Car", 19, 9500, 75, 50, 69, 9)>>

ScenarioData == Frame(AllColumns, ScenarioRows)

\* Column sets a file may have: all columns, or without an optional one.
FileColumnSets ==
  {AllColumns, AllColumns \ {"District"},
   AllColumns \ {"Recycling_Rate", "Digital_Service_Usage"}}

\* Row sequences of 1..MaxRows pool rows, a row possibly repeated; a sequence
\* lists its rows in pool order (which is not the order of their ages).
PoolRowSeqs ==
  UNION {{[i \in 1..n |-> RowPool[f[i]]] :
            f \in {g \in [1..n -> 1..Len(RowPool)] :
                     \A i \in 1..(n - 1) : g[i] <= g[i + 1]}} : n \in 1..MaxRows}

FileDatasets ==
  {Frame(cols, rows) : cols \in FileColumnSets, rows \in PoolRowSeqs} \cup {ScenarioData}

\* ------------------------------------------------------ pandas operations
\* Series.unique(): the distinct values in order of first appearance.
RECURSIVE Unique(_)
Unique(s) ==
  IF Len(s) = 0 THEN <<>>
  ELSE LET init == SubSeq(s, 1, Len(s) - 1)
           last == s[Len(s)]
       IN IF last \in Range(init) THEN Unique(init) ELSE Unique(init) \o <<last>>

CountOf(s, k) == Cardinality({i \in DOMAIN s : s[i] = k})

\* Series.mean(): NaN for an empty series.
Mean(s) == IF Len(s) = 0 THEN NaN ELSE [num |-> SumSeq(s), den |-> Len(s)]

\* Order of two table entries: "count" is descending by count (value_counts),
\* "mean" is ascending by mean with NaN last (sort_values).
Before(a, b, order) ==
  IF order = "count" THEN a.value > b.value
  ELSE IF a.value = NaN THEN FALSE
  ELSE IF b.value = NaN THEN TRUE
  ELSE a.value.num * b.value.den < b.value.num * a.value.den

RECURSIVE InsertEntry(_, _, _)
InsertEntry(x, t, order) ==
  IF Len(t) = 0 THEN <<x>>
  ELSE IF Before(x, Head(t), order) THEN <<x>> \o t
  ELSE <<Head(t)>> \o InsertEntry(x, Tail(t), order)

RECURSIVE SortTable(_, _)
\* A stable sort of a table (a sequence of [key, value] entries).
SortTable(t, order) ==
  IF Len(t) = 0 THEN <<>>
  ELSE InsertEntry(t[Len(t)], SortTable(SubSeq(t, 1, Len(t) - 1), order), order)

\* Series.value_counts() of a column of strings: one entry per value present,
\* most frequent first.
value_counts(s) ==
  LET keys == Unique(s)
  IN SortTable([i \in 1..Len(keys) |-> [key |-> keys[i], value |-> CountOf(s, keys[i])]],
               "count")

\* Series.value_counts().sort_index() of a categorical column: one entry per
\* category, in category order, a count of 0 included; NaN is not counted.
value_counts_categorical(s, categories) ==
  [i \in 1..Len(categories) |-> [key |-> categories[i], value |-> CountOf(s, categories[i])]]

GroupValues(frame, by, col, k) ==
  LET mask == [i \in 1..Len(frame.rows) |-> frame.rows[i][by] = k]
      rows == Filter(frame.rows, mask)
  IN [i \in 1..Len(rows) |-> rows[i][col]]

\* frame.groupby(by)[col].mean().reset_index() for a column of strings: one
\* entry per key present, keys sorted.
groupby_mean(frame, by, col) ==
  LET present == Range(Column(frame, by))
      keys == SelectSeq(SortedKeys, LAMBDA k : k \in present)
  IN [i \in 1..Len(keys) |->
        [key |-> keys[i], value |-> Mean(GroupValues(frame, by, col, keys[i]))]]

\* The same for a categorical key column.  With observed=False every category
\* is a group, an empty one with mean NaN; with observed=True only the
\* categories present are.  Rows whose key is NaN are in no group.
groupby_mean_categorical(frame, by, col, categories, observed) ==
  LET present == Range(Column(frame, by))
      keys == IF observed THEN SelectSeq(categories, LAMBDA k : k \in present)
              ELSE categories
  IN [i \in 1..Len(keys) |->
        [key |-> keys[i], value |-> Mean(GroupValues(frame, by, col, keys[i]))]]

\* pd.cut(x, bins, labels, right=False) on one value: searchsorted from the
\* right; a value below the first edge or not below the last edge is missing.
cut(x, bins, labels) ==
  LET ids == Cardinality({i \in DOMAIN bins : bins[i] <= x})
  IN IF ids = 0 \/ ids = Len(bins) THEN NA ELSE labels[ids]

\* frame["Age_Group"] = pd.cut(frame["Age"], ...) on a copy of the frame.
with_age_group(frame) ==
  [columns |-> frame.columns \cup {"Age_Group"},
   rows |-> [i \in 1..Len(frame.rows) |->
               [c \in frame.columns \cup {"Age_Group"} |->
                  IF c = "Age_Group" THEN cut(frame.rows[i].Age, age_bins, age_labels)
                  ELSE frame.rows[i][c]]]]

\* frame[mask] for a boolean mask with one entry per row.
Select(frame, mask) ==
  [columns |-> frame.columns, rows |-> Filter(frame.rows, mask)]

\* ------------------------------------------------------------------ state
VARIABLES
  file,                \* what pd.read_csv finds: a frame, or NoFile
  cache,               \* the st.cache_data entry of load_data, or NoEntry
  rng,                 \* the state of numpy's global generator
  reads,               \* executions of pd.read_csv (successful or not)
  gens,                \* executions of generate_mock_data by load_data
  infos,               \* executions of st.info in load_data's body
  observed_default,    \* the installed pandas' default of groupby(observed=)
  age_range,           \* the widgets' values, kept by the session
  gender_filter,
  district_filter,
  transport_filter,
  reset_clicked,       \* the Reset Filters button is down in this run
  pc,                  \* where the current script run is
  notices,             \* the notices of load_data on the page of this run
  df,                  \* the script's variables of the current run
  filtered_df,
  metrics,
  gender_counts,
  district_counts,
  transport_counts,
  transport_carbon,
  ev_age_distribution,
  district_carbon,
  gender_steps,
  trendline,
  recycling_by_age,
  digital_by_district,
  df_age_group,
  loaded,              \* history: the frame load_data's body returned
  ev_first,            \* history: the EV table of the session's first run
  recycling_first,     \* history: the recycling table of the session's first run
  gen_hist,            \* history of the generate_mock_data calls with one
                       \* n_samples: their number, and what the first and the
                       \* latest of them returned, each with the generator's
                       \* state at the start of the call
  draws,               \* draws other code took from the global generator
  sample               \* the generator's row expressions tried on raw draws:
                       \* the next raw draw to try, the row of the last one,
                       \* and the Digital_Service_Usage values met so far

envVars == <<file, observed_default>>
loadVars == <<cache, rng, reads, gens, infos>>
widgetVars == <<age_range, gender_filter, district_filter, transport_filter>>
tab1Vars == <<gender_counts, district_counts>>
tab2Vars == <<transport_counts, transport_carbon, ev_age_distribution, district_carbon>>
tab3Vars == <<gender_steps, trendline, recycling_by_age, digital_by_district>>
firstVars == <<ev_first, recycling_first>>
histVars == <<loaded, ev_first, recycling_first>>
genVars == <<gen_hist, draws, sample>>
vars == <<envVars, loadVars, widgetVars, reset_clicked, pc, notices, df, filtered_df,
          metrics, tab1Vars, tab2Vars, tab3Vars, df_age_group, histVars, genVars>>

\* No raw draw tried yet.
NoSample == [next |-> 0, row |-> Undefined, digital_usage |-> {}]

\* A script run starts with none of its variables bound and an empty page.
FreshRun ==
  /\ pc' = "start"
  /\ notices' = 0
  /\ df' = Undefined
  /\ filtered_df' = Undefined
  /\ metrics' = Undefined
  /\ gender_counts' = UndefinedTable
  /\ district_counts' = UndefinedTable
  /\ transport_counts' = UndefinedTable
  /\ transport_carbon' = UndefinedTable
  /\ ev_age_distribution' = UndefinedTable
  /\ district_carbon' = UndefinedTable
  /\ gender_steps' = UndefinedTable
  /\ trendline' = Undefined
  /\ recycling_by_age' = UndefinedTable
  /\ digital_by_district' = UndefinedTable
  /\ df_age_group' = Undefined

InitSession ==
  /\ cache = NoEntry
  /\ reads = 0
  /\ gens = 0
  /\ infos = 0
  /\ age_range = UnsetRange
  /\ gender_filter = Unset
  /\ district_filter = Unset
  /\ transport_filter = Unset
  /\ reset_clicked = FALSE
  /\ pc = "start"
  /\ notices = 0
  /\ df = Undefined
  /\ filtered_df = Undefined
  /\ metrics = Undefined
  /\ gender_counts = UndefinedTable
  /\ district_counts = UndefinedTable
  /\ transport_counts = UndefinedTable
  /\ transport_carbon = UndefinedTable
  /\ ev_age_distribution = UndefinedTable
  /\ district_carbon = UndefinedTable
  /\ gender_steps = UndefinedTable
  /\ trendline = Undefined
  /\ recycling_by_age = UndefinedTable
  /\ digital_by_district = UndefinedTable
  /\ df_age_group = Undefined
  /\ loaded = Undefined
  /\ ev_first = UndefinedTable
  /\ recycling_first = UndefinedTable

\* A new server process and a new session; the global generator starts in
\* some state that no code of the script chose.
Init ==
  /\ file \in FileDatasets \cup {NoFile}
  /\ observed_default \in BOOLEAN
  /\ rng = 0
  /\ InitSession
  /\ gen_hist = [n_samples |-> MockSamples, calls |-> 0, returned |-> <<>>]
  /\ draws = 0
  /\ sample = NoSample

\* ------------------------------------------------------------- load_data
\* @st.cache_data keeps the function's return value together with the st
\* elements its body showed, and shows them again on a cache hit.
cache_data_dropped(value, shown) == NoEntry
cache_data(value, shown) == [present |-> TRUE, value |-> value, notices |-> shown]

\* df = load_data(), the entry present: the body does not run.
LoadHit ==
  /\ pc = "start"
  /\ cache # NoEntry
  /\ df' = cache.value
  /\ notices' = cache.notices
  /\ pc' = "sidebar"
  /\ UNCHANGED <<envVars, loadVars, widgetVars, reset_clicked, filtered_df, metrics,
                 tab1Vars, tab2Vars, tab3Vars, df_age_group, histVars, genVars>>

\* The body of load_data: what it returns, the notices it shows, whether it
\* ran the generator, and the state it leaves the global generator in.
load_data_silent(found, state) ==
  IF found # NoFile
  THEN [value |-> found, shown |-> 0, generated |-> 0, state |-> state]
  ELSE LET g == generate_mock_data(MockSamples, state)
       IN [value |-> g.frame, shown |-> 0, generated |-> 1, state |-> g.state]
load_data(found, state) ==
  IF found # NoFile
  THEN [value |-> found, shown |-> 0, generated |-> 0, state |-> state]
  ELSE LET g == generate_mock_data(MockSamples, state)
       IN [value |-> g.frame, shown |-> 1, generated |-> 1, state |-> g.state]

LoadMiss ==
  /\ pc = "start"
  /\ cache = NoEntry
  /\ LET r == load_data(file, rng)
     IN /\ reads' = reads + 1
        /\ infos' = infos + r.shown
        /\ gens' = gens + r.generated
        /\ rng' = r.state
        /\ df' = r.value
        /\ cache' = cache_data(r.value, r.shown)
        /\ loaded' = r.value
        /\ notices' = r.shown
  /\ pc' = "sidebar"
  /\ UNCHANGED <<envVars, widgetVars, reset_clicked, filtered_df, metrics,
                 tab1Vars, tab2Vars, tab3Vars, df_age_group, firstVars, genVars>>

\* df = load_data(), no entry, pd.read_csv succeeds.
LoadRead ==
  /\ file # NoFile
  /\ LoadMiss

\* df = load_data(), no entry, pd.read_csv raises FileNotFoundError: the
\* notice is shown and the mock data returned.
LoadFallback ==
  /\ file = NoFile
  /\ LoadMiss

\* ------------------------------------------------------------ the sidebar
\* st.slider(label, min_value, max_value, value): a value outside the bounds is
\* refused with a StreamlitAPIException, on every run.
slider_accepts(min_value, max_value, value) ==
  min_value <= value[1] /\ value[1] <= value[2] /\ value[2] <= max_value

\* Python's truth value of district_filter: None and the empty list are false.
Truthy(selection) == selection # None /\ selection # {}

\* filtered_df = df[age and gender and transport mask], then, with a
\* non-empty district selection and a District column, the district mask.
apply_filters_exclusive(frame, ages, genders_in, districts_in, modes_in) ==
  LET first == Select(frame, [i \in 1..Len(frame.rows) |->
                               /\ frame.rows[i].Age > ages[1]
                               /\ frame.rows[i].Age <= ages[2]
                               /\ frame.rows[i].Gender \in genders_in
                               /\ frame.rows[i].Mode_of_Transport \in modes_in])
  IN IF Truthy(districts_in) /\ "District" \in frame.columns
     THEN Select(first, [i \in 1..Len(first.rows) |->
                           first.rows[i].District \in districts_in])
     ELSE first
apply_filters(frame, ages, genders_in, districts_in, modes_in) ==
  LET first == Select(frame, [i \in 1..Len(frame.rows) |->
                               /\ frame.rows[i].Age >= ages[1]
                               /\ frame.rows[i].Age <= ages[2]
                               /\ frame.rows[i].Gender \in genders_in
                               /\ frame.rows[i].Mode_of_Transport \in modes_in])
  IN IF Truthy(districts_in) /\ "District" \in frame.columns
     THEN Select(first, [i \in 1..Len(first.rows) |->
                           first.rows[i].District \in districts_in])
     ELSE first

Options(frame, c) == Range(Column(frame, c))

\* The sidebar block: the widgets return the session's values (their defaults
\* in the first run), the filter is applied, and a click on Reset Filters
\* ends the run in st.rerun().
Sidebar ==
  /\ pc = "sidebar"
  /\ LET min_value == Min(Options(df, "Age"))
         max_value == Max(Options(df, "Age"))
         ages == IF age_range = UnsetRange THEN <<DefaultAgeMin, DefaultAgeMax>> ELSE age_range
         genders_in == IF gender_filter = Unset THEN Options(df, "Gender") ELSE gender_filter
         districts_in == IF "District" \in df.columns
                         THEN (IF district_filter = Unset THEN Options(df, "District")
                               ELSE district_filter)
                         ELSE None
         modes_in == IF transport_filter = Unset THEN Options(df, "Mode_of_Transport")
                     ELSE transport_filter
     IN IF ~slider_accepts(min_value, max_value, <<DefaultAgeMin, DefaultAgeMax>>)
        THEN /\ pc' = "error"
             /\ UNCHANGED <<widgetVars, reset_clicked, notices, df, filtered_df, metrics,
                            tab1Vars, tab2Vars, tab3Vars, df_age_group>>
        ELSE /\ age_range' = ages
             /\ gender_filter' = genders_in
             /\ district_filter' = districts_in
             /\ transport_filter' = modes_in
             /\ IF reset_clicked
                THEN /\ reset_clicked' = FALSE
                     /\ FreshRun
                ELSE /\ filtered_df' = apply_filters(df, ages, genders_in, districts_in, modes_in)
                     /\ pc' = "metrics"
                     /\ UNCHANGED <<reset_clicked, notices, df, metrics,
                                    tab1Vars, tab2Vars, tab3Vars, df_age_group>>
  /\ UNCHANGED <<envVars, loadVars, histVars, genVars>>

\* --------------------------------------------------------- the main page
\* The four metric cards: Series.mean() of four columns of filtered_df.
KeyMetrics ==
  /\ pc = "metrics"
  /\ metrics' = [carbon |-> Mean(Column(filtered_df, "Carbon_Footprint_kgCO2")),
                 steps |-> Mean(Column(filtered_df, "Steps_Walked")),
                 sleep |-> Mean(Column(filtered_df, "Sleep_Hours")),
                 social |-> Mean(Column(filtered_df, "Social_Media_Hours"))]
  /\ pc' = "tab1"
  /\ UNCHANGED <<envVars, loadVars, widgetVars, reset_clicked, notices, df, filtered_df,
                 tab1Vars, tab2Vars, tab3Vars, df_age_group, histVars, genVars>>

Tab1 ==
  /\ pc = "tab1"
  /\ gender_counts' = value_counts(Column(filtered_df, "Gender"))
  /\ district_counts' = IF "District" \in filtered_df.columns
                        THEN value_counts(Column(filtered_df, "District"))
                        ELSE UndefinedTable
  /\ pc' = "tab2"
  /\ UNCHANGED <<envVars, loadVars, widgetVars, reset_clicked, notices, df, filtered_df,
                 metrics, tab2Vars, tab3Vars, df_age_group, histVars, genVars>>

\* df_age_group = frame.copy(); df_age_group["Age_Group"] = pd.cut(...): the
\* frame itself stays as it is, the copy gets the column.
bin_in_place(frame) == [source |-> with_age_group(frame), binned |-> with_age_group(frame)]
copy_then_bin(frame) == [source |-> frame, binned |-> with_age_group(frame)]

\* The table the EV chart starts from: the loaded one, not the filtered one.
ev_population_filtered(whole, filtered) == filtered
ev_population(whole, filtered) == whole

Tab2 ==
  /\ pc = "tab2"
  /\ transport_counts' = value_counts(Column(filtered_df, "Mode_of_Transport"))
  /\ transport_carbon' =
       SortTable(groupby_mean(filtered_df, "Mode_of_Transport", "Carbon_Footprint_kgCO2"),
                 "mean")
  /\ LET population == ev_population(df, filtered_df)
         b == copy_then_bin(population)
         ev_age_df == Select(b.binned, [i \in 1..Len(b.binned.rows) |->
                                          b.binned.rows[i].Mode_of_Transport = "EV"])
         table == value_counts_categorical(Column(ev_age_df, "Age_Group"), age_labels)
     IN /\ ev_age_distribution' = table
        /\ ev_first' = IF ev_first = UndefinedTable THEN table ELSE ev_first
        /\ df_age_group' = b.binned
        /\ df' = IF population = df THEN b.source ELSE df
        /\ filtered_df' = IF population = df THEN filtered_df ELSE b.source
  /\ district_carbon' = IF "District" \in filtered_df.columns
                        THEN groupby_mean(filtered_df, "District", "Carbon_Footprint_kgCO2")
                        ELSE UndefinedTable
  /\ pc' = "tab3"
  /\ UNCHANGED <<envVars, loadVars, widgetVars, reset_clicked, notices, metrics,
                 tab1Vars, tab3Vars, loaded, recycling_first, genVars>>

\* px.scatter(..., trendline="ols").data[1]: the fitted line has one point per
\* row when there are at least two rows, and is an empty trace otherwise.
ols_trendline(frame) ==
  [points |-> IF Len(frame.rows) > 1 THEN Len(frame.rows) ELSE 0]

Tab3 ==
  /\ pc = "tab3"
  /\ gender_steps' = groupby_mean(filtered_df, "Gender", "Steps_Walked")
  /\ trendline' = ols_trendline(filtered_df)
  /\ IF "Recycling_Rate" \in filtered_df.columns
     THEN LET b == IF "Age_Group" \notin filtered_df.columns
                   THEN copy_then_bin(filtered_df)
                   ELSE [source |-> filtered_df, binned |-> filtered_df]
              table == groupby_mean_categorical(b.binned, "Age_Group", "Recycling_Rate",
                                                age_labels, observed_default)
          IN /\ filtered_df' = b.source
             /\ df_age_group' = b.binned
             /\ recycling_by_age' = table
             /\ recycling_first' =
                  IF recycling_first = UndefinedTable THEN table ELSE recycling_first
             /\ digital_by_district' =
                  IF "District" \in b.source.columns
                     /\ "Digital_Service_Usage" \in b.source.columns
                  THEN groupby_mean(b.source, "District", "Digital_Service_Usage")
                  ELSE UndefinedTable
     ELSE UNCHANGED <<filtered_df, df_age_group, recycling_by_age, recycling_first,
                      digital_by_district>>
  /\ pc' = "done"
  /\ UNCHANGED <<envVars, loadVars, widgetVars, reset_clicked, notices, df, metrics,
                 tab1Vars, tab2Vars, loaded, ev_first, genVars>>

\* ------------------------------------------------------ user interactions
\* Every interaction with a widget stores its new value in the session and
\* reruns the script.  The values offered: the slider positions AgePoints
\* within the slider's bounds; of a multiselect everything, nothing, or one
\* option.
AgePoints == {20, 25, 55, 60, 100}

SliderPoints(frame) ==
  {a \in AgePoints : Min(Options(frame, "Age")) <= a /\ a <= Max(Options(frame, "Age"))}

Selections(options) == {options, {}} \cup {{o} : o \in options}

ChangeAgeRange ==
  /\ pc = "done"
  /\ \E lo \in SliderPoints(df), hi \in SliderPoints(df) :
       /\ lo <= hi
       /\ <<lo, hi>> # age_range
       /\ age_range' = <<lo, hi>>
  /\ FreshRun
  /\ UNCHANGED <<envVars, loadVars, gender_filter, district_filter, transport_filter,
                 reset_clicked, histVars, genVars>>

ChangeGender ==
  /\ pc = "done"
  /\ \E selection \in Selections(Options(df, "Gender")) \ {gender_filter} :
       gender_filter' = selection
  /\ FreshRun
  /\ UNCHANGED <<envVars, loadVars, age_range, district_filter, transport_filter,
                 reset_clicked, histVars, genVars>>

ChangeDistrict ==
  /\ pc = "done"
  /\ "District" \in df.columns
  /\ \E selection \in Selections(Options(df, "District")) \ {district_filter} :
       district_filter' = selection
  /\ FreshRun
  /\ UNCHANGED <<envVars, loadVars, age_range, gender_filter, transport_filter,
                 reset_clicked, histVars, genVars>>

ChangeTransport ==
  /\ pc = "done"
  /\ \E selection \in Selections(Options(df, "Mode_of_Transport")) \ {transport_filter} :
       transport_filter' = selection
  /\ FreshRun
  /\ UNCHANGED <<envVars, loadVars, age_range, gender_filter, district_filter,
                 reset_clicked, histVars, genVars>>

\* The Date Range input is read by nothing: changing it only reruns the
\* script.  It is drawn before the slider, so it is there after an error too.
ChangeDateRange ==
  /\ pc \in {"done", "error"}
  /\ FreshRun
  /\ UNCHANGED <<envVars, loadVars, widgetVars, reset_clicked, histVars, genVars>>

\* A click on Reset Filters: the script reruns with the button down.
ResetFilters ==
  /\ pc = "done"
  /\ reset_clicked' = TRUE
  /\ FreshRun
  /\ UNCHANGED <<envVars, loadVars, widgetVars, histVars, genVars>>

\* -------------------------------------------------------- the environment
\* The dataset file is outside the program: it may be removed at any time,
\* and a file may be put there (one with ScenarioData's contents).
FileRemoved ==
  /\ file # NoFile
  /\ file' = NoFile
  /\ UNCHANGED <<observed_default, loadVars, widgetVars, reset_clicked, pc, notices, df,
                 filtered_df, metrics, tab1Vars, tab2Vars, tab3Vars, df_age_group, histVars, genVars>>

FileCreated ==
  /\ file = NoFile
  /\ file' = ScenarioData
  /\ UNCHANGED <<observed_default, loadVars, widgetVars, reset_clicked, pc, notices, df,
                 filtered_df, metrics, tab1Vars, tab2Vars, tab3Vars, df_age_group, histVars, genVars>>

Next ==
  \/ LoadHit
  \/ LoadRead
  \/ LoadFallback
  \/ Sidebar
  \/ KeyMetrics
  \/ Tab1
  \/ Tab2
  \/ Tab3
  \/ ChangeAgeRange
  \/ ChangeGender
  \/ ChangeDistrict
  \/ ChangeTransport
  \/ ChangeDateRange
  \/ ResetFilters
  \/ FileRemoved
  \/ FileCreated

Spec == Init /\ [][Next]_vars

\* ------------------------------------------------- generate_mock_data alone
\* The function called directly, any number of times and with any n_samples,
\* in a process whose other code draws from the global generator in between.
RngStart == {0, 1, 4095}

InitGen ==
  /\ file = NoFile
  /\ observed_default = FALSE
  /\ rng \in RngStart
  /\ InitSession
  /\ gen_hist \in {[n_samples |-> n, calls |-> 0, returned |-> <<>>] : n \in 1..MaxN}
  /\ draws = 0
  /\ sample = NoSample

\* A call generate_mock_data(n); the calls with gen_hist.n_samples are recorded.
GenCall(n) ==
  /\ n = gen_hist.n_samples => gen_hist.calls < MaxCalls
  /\ LET g == generate_mock_data(n, rng)
         call == [frame |-> g.frame, state |-> rng]
     IN /\ rng' = g.state
        /\ gen_hist' =
             IF n = gen_hist.n_samples
             THEN [gen_hist EXCEPT !.calls = @ + 1,
                                   !.returned = IF @ = <<>> THEN <<call>>
                                                ELSE <<@[1], call>>]
             ELSE gen_hist
  /\ UNCHANGED <<envVars, cache, reads, gens, infos, widgetVars, reset_clicked, pc, notices,
                 df, filtered_df, metrics, tab1Vars, tab2Vars, tab3Vars, df_age_group, histVars, draws,
                 sample>>

\* Some other code takes one value from the global generator.
OtherDraw ==
  /\ draws < MaxDraws
  /\ rng' = RngStep(rng)
  /\ draws' = draws + 1
  /\ UNCHANGED <<envVars, cache, reads, gens, infos, widgetVars, reset_clicked, pc, notices,
                 df, filtered_df, metrics, tab1Vars, tab2Vars, tab3Vars, df_age_group, histVars, gen_hist,
                 sample>>

NextGen ==
  \/ \E n \in 1..MaxN : GenCall(n)
  \/ OtherDraw

SpecGen == InitGen /\ [][NextGen]_vars

\* ------------------------------------------- the generator's row expressions
\* The values the column expressions of generate_mock_data give for each raw
\* draw the generator can return, whatever the seed: the raw draws are tried
\* one after the other, the same draw in every column expression.
RawOutputs == {RngOut(s) : s \in RngStates}

InitRow ==
  /\ file = NoFile
  /\ observed_default = FALSE
  /\ rng = 0
  /\ InitSession
  /\ gen_hist = [n_samples |-> MockSamples, calls |-> 0, returned |-> <<>>]
  /\ draws = 0
  /\ sample = NoSample

MockRow ==
  /\ sample.next \in RawOutputs
  /\ LET row == mock_row([j \in 0..10 |-> sample.next])
     IN sample' = [next |-> sample.next + 1,
                   row |-> row,
                   digital_usage |-> sample.digital_usage \cup {row.Digital_Service_Usage}]
  /\ UNCHANGED <<envVars, loadVars, widgetVars, reset_clicked, pc, notices, df, filtered_df,
                 metrics, tab1Vars, tab2Vars, tab3Vars, df_age_group, histVars, gen_hist, draws>>

NextRow == MockRow

SpecRow == InitRow /\ [][NextRow]_vars

\* ================================================================ claims
\* The script has computed filtered_df in this run.
Filtered == filtered_df # Undefined

\* The criteria predicate of the current widget values on one row of frame.
Matches(frame, r) ==
  /\ age_range[1] <= r.Age
  /\ r.Age <= age_range[2]
  /\ r.Gender \in gender_filter
  /\ r.Mode_of_Transport \in transport_filter
  /\ \/ "District" \notin frame.columns
     \/ district_filter = {}
     \/ r.District \in district_filter

\* rows is the sub-sequence of the rows of frame at the indices in keep.
IsSubSequenceAt(rows, frame, keep) ==
  /\ Len(rows) = Cardinality(keep)
  /\ \A k \in 1..Len(rows) :
       \E i \in keep : /\ Cardinality({j \in keep : j < i}) = k - 1
                       /\ rows[k] = frame.rows[i]

FilterIsExact ==
  Filtered =>
    /\ filtered_df.columns = loaded.columns
    /\ IsSubSequenceAt(filtered_df.rows, loaded,
                       {i \in DOMAIN loaded.rows : Matches(loaded, loaded.rows[i])})

\* The scenario's criteria on the scenario's dataset.
ScenarioCase ==
  /\ Filtered
  /\ loaded = ScenarioData
  /\ age_range = <<25, 55>>
  /\ gender_filter = {"Male"}
  /\ district_filter = {"Downtown"}
  /\ transport_filter = {"Car"}

\* C1 as amended: in every state in which the script has computed filtered_df,
\* it is exactly the sub-sequence of the loaded dataset's rows that satisfy the
\* criteria of the current widget values, whatever the criteria were before;
\* for the five Male rows aged 20..60 and criteria 25..55, {Male}, the rows
\* aged 30, 40 and 50 remain.
C1_FilterExact ==
  /\ FilterIsExact
  /\ ScenarioCase => Column(filtered_df, "Age") = <<30, 40, 50>>

\* C1 as claimed: the same, with exactly the rows aged 30 and 40 remaining in
\* the scenario.
C1_AsClaimed ==
  /\ FilterIsExact
  /\ ScenarioCase => Column(filtered_df, "Age") = <<30, 40>>

\* C1 witness: the scenario's criteria were reached after other criteria (the
\* widgets' defaults) and the page was computed from the three rows.
C1_Witness ==
  /\ ScenarioCase
  /\ pc = "done"
  /\ Len(filtered_df.rows) = 3

\* The label the data model gives an age: [18,25), ..., [65,75), [75,100].
SpecAgeGroup(age) ==
  IF age < 25 THEN "18-24" ELSE IF age < 35 THEN "25-34" ELSE IF age < 45 THEN "35-44"
  ELSE IF age < 55 THEN "45-54" ELSE IF age < 65 THEN "55-64"
  ELSE IF age < 75 THEN "65-74" ELSE "75+"

\* C2 as claimed: every row of a binned table whose Age is in 18..100 carries
\* the label of its interval, the last interval [75,100] closed (Age 100 is
\* "75+").
C2_AsClaimed ==
  df_age_group # Undefined =>
    \A i \in DOMAIN df_age_group.rows :
      LET r == df_age_group.rows[i]
      IN r.Age \in 18..100 => r.Age_Group = SpecAgeGroup(r.Age)

\* A table of group means has entries only for groups with a row, none NaN.
MeanTableOk(table, frame, by) ==
  table # UndefinedTable =>
    \A i \in DOMAIN table :
      /\ table[i].value # NaN
      /\ \E j \in DOMAIN frame.rows : frame.rows[j][by] = table[i].key

\* C3 as claimed: once the page is computed, each of the five tables of group
\* means (carbon by transport mode, carbon by district, steps by gender,
\* digital usage by district, recycling rate by age group) has entries only
\* for groups with at least one row of the filtered dataset, and no NaN mean.
C3_AsClaimed ==
  pc = "done" =>
    /\ MeanTableOk(transport_carbon, filtered_df, "Mode_of_Transport")
    /\ MeanTableOk(district_carbon, filtered_df, "District")
    /\ MeanTableOk(gender_steps, filtered_df, "Gender")
    /\ MeanTableOk(digital_by_district, filtered_df, "District")
    /\ MeanTableOk(recycling_by_age, df_age_group, "Age_Group")

EmptyOrUndefined(table) == table = <<>> \/ table = UndefinedTable

\* C4 as claimed: once the page is computed from a filtered dataset of zero
\* rows, none of the four key-metric means is NaN, and every count table,
\* every table of group means, the recycling table and the trendline are
\* empty.
C4_AsClaimed ==
  (pc = "done" /\ Len(filtered_df.rows) = 0) =>
    /\ metrics.carbon # NaN
    /\ metrics.steps # NaN
    /\ metrics.sleep # NaN
    /\ metrics.social # NaN
    /\ gender_counts = <<>>
    /\ EmptyOrUndefined(district_counts)
    /\ transport_counts = <<>>
    /\ transport_carbon = <<>>
    /\ EmptyOrUndefined(district_carbon)
    /\ gender_steps = <<>>
    /\ EmptyOrUndefined(recycling_by_age)
    /\ EmptyOrUndefined(digital_by_district)
    /\ trendline.points = 0

TableSum(table) == SumSeq([i \in DOMAIN table |-> table[i].value])

EvRows(frame) == {i \in DOMAIN frame.rows : frame.rows[i].Mode_of_Transport = "EV"}

\* C5 as claimed: once the page is computed, the gender, district and
\* transport-mode counts each sum to the number of rows of the filtered
\* dataset, and the age-group counts of the EV chart sum to the number of EV
\* rows of the loaded dataset.
C5_AsClaimed ==
  pc = "done" =>
    /\ TableSum(gender_counts) = Len(filtered_df.rows)
    /\ district_counts # UndefinedTable => TableSum(district_counts) = Len(filtered_df.rows)
    /\ TableSum(transport_counts) = Len(filtered_df.rows)
    /\ TableSum(ev_age_distribution) = Cardinality(EvRows(loaded))

AgeGroupRows(frame, indices, label) ==
  {i \in indices : cut(frame.rows[i].Age, age_bins, age_labels) = label}

RECURSIVE SumAt(_, _, _)
SumAt(frame, indices, col) ==
  IF indices = {} THEN 0
  ELSE LET i == CHOOSE x \in indices : TRUE
       IN frame.rows[i][col] + SumAt(frame, indices \ {i}, col)

\* C6: whenever the script has computed the EV age-group table, it is the
\* table of the session's first run (whatever the criteria are now), and each
\* of its counts is the number of EV rows of the loaded dataset in that age
\* group; the recycling table's means are those of the filtered rows.
C6_EvIgnoresCriteria ==
  /\ ev_age_distribution # UndefinedTable =>
       /\ ev_age_distribution = ev_first
       /\ \A i \in DOMAIN ev_age_distribution :
            ev_age_distribution[i].value =
              Cardinality(AgeGroupRows(loaded, EvRows(loaded), ev_age_distribution[i].key))
  /\ (pc = "done" /\ recycling_by_age # UndefinedTable) =>
       \A i \in DOMAIN recycling_by_age :
         LET rows == AgeGroupRows(filtered_df, DOMAIN filtered_df.rows, recycling_by_age[i].key)
         IN /\ recycling_by_age[i].value.den = Cardinality(rows)
            /\ recycling_by_age[i].value.num = SumAt(filtered_df, rows, "Recycling_Rate")

\* C6 witness: a page computed under criteria that leave out an EV row: the EV
\* table still counts it and equals the first run's, the recycling table
\* differs from the first run's.
C6_Witness ==
  /\ pc = "done"
  /\ ev_age_distribution = ev_first
  /\ TableSum(ev_age_distribution) > Cardinality(EvRows(filtered_df))
  /\ recycling_first # UndefinedTable
  /\ recycling_by_age # recycling_first

\* C7: in every state the script's df and the cache entry are the frame that
\* load_data returned, and neither df nor filtered_df has an Age_Group column.
C7_DatasetUnchanged ==
  /\ df # Undefined => (df = loaded /\ "Age_Group" \notin df.columns)
  /\ cache # NoEntry => cache.value = loaded
  /\ Filtered => "Age_Group" \notin filtered_df.columns

\* C7 witness: a page computed after a filter that dropped rows and after both
\* binnings, with df still the loaded frame.
C7_Witness ==
  /\ pc = "done"
  /\ ev_age_distribution # UndefinedTable
  /\ recycling_by_age # UndefinedTable
  /\ "Age_Group" \in df_age_group.columns
  /\ Len(filtered_df.rows) < Len(df.rows)
  /\ df = loaded

\* C8: load_data's body runs at most once in a session (one read attempt, at
\* most one run of the generator); once the entry is there, no step changes it
\* or runs the body, and every later load binds df to the entry's value.
C8_LoadedOnce ==
  [][/\ reads' <= 1
     /\ gens' <= 1
     /\ cache # NoEntry =>
          /\ cache' = cache
          /\ reads' = reads
          /\ gens' = gens
          /\ infos' = infos
          /\ df' # Undefined => df' = cache.value]_vars

\* C8 witness: the run that a click on Reset Filters started has loaded the
\* file's data from the entry although the file is gone.
C8_Witness ==
  /\ pc = "sidebar"
  /\ reset_clicked
  /\ cache # NoEntry
  /\ cache.notices = 0
  /\ file = NoFile
  /\ df = cache.value
  /\ reads = 1

\* C9: a load that finds no entry ends at the sidebar, not in an error: with
\* the file missing it shows the notice once, runs the generator once and
\* binds df to generate_mock_data(MockSamples); with the file there it binds
\* df to the file's contents, shows no notice and does not run the generator.
\* A session on mock data never ends in the error state.
C9_Fallback ==
  [][/\ (pc = "start" /\ cache = NoEntry /\ pc' # "start") =>
          /\ pc' = "sidebar"
          /\ reads' = reads + 1
          /\ IF file = NoFile
             THEN /\ df' = generate_mock_data(MockSamples, rng).frame
                  /\ infos' = infos + 1
                  /\ notices' = 1
                  /\ gens' = gens + 1
             ELSE /\ df' = file
                  /\ infos' = infos
                  /\ notices' = 0
                  /\ gens' = gens
     /\ gens' = 1 => pc' # "error"]_vars

\* C9 witness: the page was computed from the mock data after one notice.
C9_Witness ==
  /\ pc = "done"
  /\ gens = 1
  /\ infos = 1
  /\ notices = 1
  /\ Len(df.rows) = MockSamples

\* C10 (SpecGen): every call of generate_mock_data with the same n_samples
\* returned the frame the first such call returned, whatever state the global
\* generator was in when the call started (other calls and other draws having
\* come in between).
C10_Deterministic ==
  \A i \in DOMAIN gen_hist.returned, j \in DOMAIN gen_hist.returned :
    /\ gen_hist.returned[i].frame = gen_hist.returned[j].frame
    /\ Len(gen_hist.returned[i].frame.rows) = gen_hist.n_samples

\* C10 witness: two calls with the same n_samples started in different states
\* of the generator, other code having drawn from it.
C10_Witness ==
  /\ gen_hist.calls >= 2
  /\ gen_hist.returned[1].state # gen_hist.returned[2].state
  /\ draws > 0

\* The last row tried lies in the stated ranges and enumerated sets.
RowInRanges ==
  sample.row # Undefined =>
    /\ sample.row.Age \in 18..79
    /\ sample.row.Steps_Walked \in 1000..14999
    /\ sample.row.Digital_Service_Usage \in 1..10
    /\ sample.row.Gender \in Range(genders)
    /\ sample.row.District \in Range(districts)
    /\ sample.row.Mode_of_Transport \in Range(transport_modes)

\* Every raw draw the generator can return has been tried.
AllDrawsTried == sample.next \notin RawOutputs

\* C11 as claimed (SpecRow): every generated row has Age in 18..79,
\* Steps_Walked in 1000..14999, Digital_Service_Usage in 1..10 and its
\* categorical values in the enumerated sets; and 10 is a possible value of
\* Digital_Service_Usage: once every raw draw has been tried, 10 is among the
\* values met.
C11_AsClaimed ==
  /\ RowInRanges
  /\ AllDrawsTried => 10 \in sample.digital_usage

\* C12: in every state in which the script has computed filtered_df, applying
\* the filter with the same criteria to filtered_df gives filtered_df again:
\* the same rows in the same order, the district stage included.
C12_Idempotent ==
  Filtered =>
    apply_filters(filtered_df, age_range, gender_filter, district_filter, transport_filter)
      = filtered_df

\* C12 witness: the page was computed from a filtered dataset that kept some
\* rows and dropped others, the district stage having dropped one (a row of df
\* that passes the first mask is outside the selected districts).
C12_Witness ==
  /\ pc = "done"
  /\ Len(filtered_df.rows) > 0
  /\ Truthy(district_filter)
  /\ "District" \in df.columns
  /\ \E i \in DOMAIN df.rows :
       /\ age_range[1] <= df.rows[i].Age
       /\ df.rows[i].Age <= age_range[2]
       /\ df.rows[i].Gender \in gender_filter
       /\ df.rows[i].Mode_of_Transport \in transport_filter
       /\ df.rows[i].District \notin district_filter

\* The current widget value of the age slider lies within the slider's bounds.
AgeRangeInBounds ==
  (df # Undefined /\ age_range # UnsetRange) =>
    /\ Min(Options(df, "Age")) <= age_range[1]
    /\ age_range[1] <= age_range[2]
    /\ age_range[2] <= Max(Options(df, "Age"))

====
